---- MODULE Spec2Model ----
(***************************************************************************)
(* The California infectious-disease dashboard: dash_app.py and the two    *)
(* program variants that streamlit_app.py holds one after the other (the   *)
(* sidebar variant, lines 110-149 and 191-254, and the filter-container    *)
(* variant, lines 150-189 and 255-450).                                    *)
(*                                                                         *)
(* Python strings are sequences of one-character strings, so that          *)
(* str.title(), astype(str), int() and sorted() are computed character by  *)
(* character.  Column names, file names and exception type names are       *)
(* atoms (TLA+ strings).                                                   *)
(***************************************************************************)
EXTENDS Integers, Sequences, FiniteSets, TLC

\* ------------------------------------------------------------------------
\* Bounds of the model
\* ------------------------------------------------------------------------
MaxRecords == 2

MaxFeatures == 2

\* ------------------------------------------------------------------------
\* Characters and Python string functions
\* ------------------------------------------------------------------------
Digits == <<"0", "1", "2", "3", "4", "5", "6", "7", "8", "9">>

UpperCase == <<"A", "B", "C", "D", "E", "F", "G", "H", "I", "J", "K", "L", "M",
               "N", "O", "P", "Q", "R", "S", "T", "U", "V", "W", "X", "Y", "Z">>

LowerCase == <<"a", "b", "c", "d", "e", "f", "g", "h", "i", "j", "k", "l", "m",
               "n", "o", "p", "q", "r", "s", "t", "u", "v", "w", "x", "y", "z">>

InSeq(seq, c) == \E i \in 1..Len(seq) : seq[i] = c

IndexIn(seq, c) == CHOOSE i \in 1..Len(seq) : seq[i] = c

IsDigit(c) == InSeq(Digits, c)

IsUpper(c) == InSeq(UpperCase, c)

IsLower(c) == InSeq(LowerCase, c)

IsCased(c) == IsUpper(c) \/ IsLower(c)

\* The code point of a character (space, + - /, digits, letters).
ord(c) ==
    IF IsDigit(c) THEN 47 + IndexIn(Digits, c)
    ELSE IF IsUpper(c) THEN 64 + IndexIn(UpperCase, c)
    ELSE IF IsLower(c) THEN 96 + IndexIn(LowerCase, c)
    ELSE IF c = " " THEN 32
    ELSE IF c = "+" THEN 43
    ELSE IF c = "-" THEN 45
    ELSE 47

upper(c) == IF IsLower(c) THEN UpperCase[IndexIn(LowerCase, c)] ELSE c

lower(c) == IF IsUpper(c) THEN LowerCase[IndexIn(UpperCase, c)] ELSE c

\* str.title(): a cased character is upper-cased when it follows an uncased
\* one (or starts the string) and lower-cased when it follows a cased one.
title(s) ==
    [i \in 1..Len(s) |->
        IF ~IsCased(s[i]) THEN s[i]
        ELSE IF i > 1 /\ IsCased(s[i - 1]) THEN lower(s[i])
        ELSE upper(s[i])]

\* Python's order on str: lexicographic by code point.
RECURSIVE StrLess(_, _)
StrLess(s, t) ==
    IF s = <<>> THEN t # <<>>
    ELSE IF t = <<>> THEN FALSE
    ELSE IF ord(Head(s)) # ord(Head(t)) THEN ord(Head(s)) < ord(Head(t))
    ELSE StrLess(Tail(s), Tail(t))

\* str(n) of an integer, as Series.astype(str) gives it.
RECURSIVE NatToStr(_)
NatToStr(n) ==
    IF n < 10 THEN <<Digits[n + 1]>>
    ELSE Append(NatToStr(n \div 10), Digits[(n % 10) + 1])

IntToStr(n) == IF n < 0 THEN <<"-">> \o NatToStr(-n) ELSE NatToStr(n)

\* str.strip() of spaces, which int() applies to its argument.
RECURSIVE LStrip(_)
LStrip(s) == IF s # <<>> /\ Head(s) = " " THEN LStrip(Tail(s)) ELSE s

RECURSIVE RStrip(_)
RStrip(s) ==
    IF s # <<>> /\ s[Len(s)] = " " THEN RStrip(SubSeq(s, 1, Len(s) - 1)) ELSE s

RECURSIVE DigitsValue(_)
DigitsValue(s) ==
    IF s = <<>> THEN 0
    ELSE 10 * DigitsValue(SubSeq(s, 1, Len(s) - 1)) + (IndexIn(Digits, s[Len(s)]) - 1)

\* int(s): surrounding spaces stripped, an optional sign, then one or more
\* decimal digits; anything else raises ValueError.
int(s) ==
    LET t == RStrip(LStrip(s))
        signed == t # <<>> /\ Head(t) \in {"+", "-"}
        body == IF signed THEN Tail(t) ELSE t
    IN  IF body = <<>> \/ \E i \in 1..Len(body) : ~IsDigit(body[i])
        THEN [ok |-> FALSE, error |-> "ValueError"]
        ELSE [ok |-> TRUE,
              v |-> IF signed /\ Head(t) = "-" THEN -DigitsValue(body)
                    ELSE DigitsValue(body)]

\* ------------------------------------------------------------------------
\* Python values that may be None or 'N/A'
\* ------------------------------------------------------------------------
None == [type |-> "NoneType"]

NA == [type |-> "str", v |-> <<"N", "/", "A">>]

PyInt(n) == [type |-> "int", v |-> n]

\* ------------------------------------------------------------------------
\* String constants of the source
\* ------------------------------------------------------------------------
AllDiseases == <<"A", "l", "l", " ", "D", "i", "s", "e", "a", "s", "e", "s">>

AllCounties == <<"A", "l", "l", " ", "C", "o", "u", "n", "t", "i", "e", "s">>

AllYears == <<"A", "l", "l", " ", "Y", "e", "a", "r", "s">>

AllSexes == <<"A", "l", "l">>

DEFAULTS == [disease |-> AllDiseases, county |-> AllCounties,
             year |-> AllYears, sex |-> AllSexes]

Fields == {"disease", "county", "year", "sex"}

CSV_PATH == "california_infectious_diseases.csv"

GEOJSON_PATH == "california-counties.geojson"

\* The columns the programs read from the case table.
Columns == {"Disease", "County", "Year", "Sex", "Cases"}

\* ------------------------------------------------------------------------
\* pandas operations on the case table (a sequence of rows)
\* ------------------------------------------------------------------------
Range(seq) == {seq[i] : i \in 1..Len(seq)}

\* df[name]: the column as a sequence.
Column(rows, name) == [i \in 1..Len(rows) |-> rows[i][name]]

\* Series.unique(): the distinct values in order of first appearance.
RECURSIVE unique(_)
unique(col) ==
    IF col = <<>> THEN <<>>
    ELSE LET front == unique(SubSeq(col, 1, Len(col) - 1))
             last == col[Len(col)]
         IN  IF last \in Range(front) THEN front ELSE Append(front, last)

\* sorted() of a list of str.
RECURSIVE sorted(_)
sorted(seq) ==
    IF seq = <<>> THEN <<>>
    ELSE LET rest == sorted(Tail(seq))
             x == Head(seq)
             k == Cardinality({i \in 1..Len(rest) : StrLess(rest[i], x)})
         IN  SubSeq(rest, 1, k) \o <<x>> \o SubSeq(rest, k + 1, Len(rest))

\* The ascending order of integer group keys.
RECURSIVE SortInts(_)
SortInts(seq) ==
    IF seq = <<>> THEN <<>>
    ELSE LET rest == SortInts(Tail(seq))
             x == Head(seq)
             k == Cardinality({i \in 1..Len(rest) : rest[i] < x})
         IN  SubSeq(rest, 1, k) \o <<x>> \o SubSeq(rest, k + 1, Len(rest))

\* Series.sum() of the Cases column.
RECURSIVE SumCases(_)
SumCases(rows) ==
    IF rows = <<>> THEN 0 ELSE Head(rows).Cases + SumCases(Tail(rows))

SeqMin(seq) == CHOOSE m \in Range(seq) : \A x \in Range(seq) : m <= x

SeqMax(seq) == CHOOSE m \in Range(seq) : \A x \in Range(seq) : m >= x

\* Mutant of group_keys: groupby(key, sort=False), keys in order of appearance.
group_keys_unsorted(rows, key) == unique(Column(rows, key))

\* The group keys of groupby(key): the distinct keys, sorted ascending
\* (groupby's default sort=True).
group_keys(rows, key) ==
    IF key = "Year" THEN SortInts(unique(Column(rows, key)))
    ELSE sorted(unique(Column(rows, key)))

\* dff.groupby(key)['Cases'].sum().reset_index(): one row per group key, in the
\* order of the keys, with the sum of the group's Cases.
groupby_sum(rows, key) ==
    LET keys == group_keys(rows, key)
    IN  [k \in 1..Len(keys) |->
            (key :> keys[k]) @@
            ("Cases" :> SumCases(SelectSeq(rows, LAMBDA r : r[key] = keys[k])))]

\* map_data['County'] = map_data['County'].str.title()
title_counties(map_data) ==
    [k \in 1..Len(map_data) |->
        [County |-> title(map_data[k].County), Cases |-> map_data[k].Cases]]

\* The distinct values of a column behind the wildcard:
\* ['All ...'] + sorted(df[name].unique())
option_list(wildcard, rows, name) ==
    <<wildcard>> \o
    sorted(unique(IF name = "Year"
                  THEN [i \in 1..Len(rows) |-> IntToStr(rows[i].Year)]
                  ELSE Column(rows, name)))

\* ------------------------------------------------------------------------
\* The filter and aggregate pipeline
\* ------------------------------------------------------------------------
KeyError(name) == [ok |-> FALSE, error |-> "KeyError", arg |-> name]

\* One boolean-mask filter dff = dff[dff[name] == v]; a column that the
\* table lacks raises KeyError(name).
mask(res, cols, name, v) ==
    IF ~res.ok THEN res
    ELSE IF name \notin cols THEN KeyError(name)
    ELSE [ok |-> TRUE, rows |-> SelectSeq(res.rows, LAMBDA r : r[name] = v)]

\* The year filter: dff = dff[dff['Year'] == int(year)].
mask_year(res, cols, year) ==
    IF ~res.ok THEN res
    ELSE IF "Year" \notin cols THEN KeyError("Year")
    ELSE IF ~int(year).ok THEN [ok |-> FALSE, error |-> "ValueError", arg |-> "Year"]
    ELSE mask(res, cols, "Year", int(year).v)

\* Mutant of sex_filtered: the sex filter is never applied.
sex_filtered_never(sex) == FALSE

\* Whether the sex filter is applied.
sex_filtered(sex) == sex # AllSexes

\* dff = df.copy() and the four conditional filters, in source order.
apply_filters(rows, cols, disease, county, year, sex) ==
    LET s0 == [ok |-> TRUE, rows |-> rows]
        s1 == IF disease # AllDiseases THEN mask(s0, cols, "Disease", disease) ELSE s0
        s2 == IF county # AllCounties THEN mask(s1, cols, "County", county) ELSE s1
        s3 == IF year # AllYears THEN mask_year(s2, cols, year) ELSE s2
    IN  IF sex_filtered(sex) THEN mask(s3, cols, "Sex", sex) ELSE s3

\* Mutant of first_year: min() without the emptiness test, which is NaN on
\* an empty frame.
first_year_unguarded(rows, none) ==
    IF rows # <<>> THEN PyInt(SeqMin(Column(rows, "Year")))
                   ELSE [type |-> "float", nan |-> TRUE]

\* dff['Year'].min() if not dff.empty else <marker>
first_year(rows, none) ==
    IF rows # <<>> THEN PyInt(SeqMin(Column(rows, "Year"))) ELSE none

\* dff['Year'].max() if not dff.empty else <marker>
last_year(rows, none) ==
    IF rows # <<>> THEN PyInt(SeqMax(Column(rows, "Year"))) ELSE none

\* The metrics and the two grouped tables computed from the filtered rows;
\* none is the marker the variant shows for an empty subset.
aggregate(rows, cols, disease, county, year, sex, none) ==
    LET f == apply_filters(rows, cols, disease, county, year, sex)
    IN  IF ~f.ok THEN f
        ELSE IF "Cases" \notin cols THEN KeyError("Cases")
        ELSE [ok |-> TRUE,
              total |-> SumCases(f.rows),
              first |-> first_year(f.rows, none),
              last |-> last_year(f.rows, none),
              bar_data |-> groupby_sum(f.rows, "Year"),
              map_data |-> title_counties(groupby_sum(f.rows, "County"))]

\* dash_app.py: update_dashboard(disease, county, year, sex)
update_dashboard(rows, cols, disease, county, year, sex) ==
    aggregate(rows, cols, disease, county, year, sex, None)

\* streamlit_app.py, sidebar variant: filtered, total, first, last, bar_df, map_df
sidebar_pipeline(rows, cols, disease, county, year, sex) ==
    aggregate(rows, cols, disease, county, year, sex, NA)

\* streamlit_app.py, filter-container variant: df_filtered, total_cases,
\* first_reported_year, last_reported_year, bar_data, map_data
container_pipeline(rows, cols, disease, county, year, sex) ==
    aggregate(rows, cols, disease, county, year, sex, NA)

\* ------------------------------------------------------------------------
\* Inputs: the two files, and the values a selection may hold
\* ------------------------------------------------------------------------
Flu == <<"F", "l", "u">>

Row(d, c, y, s, n) == [Disease |-> d, County |-> c, Year |-> y, Sex |-> s, Cases |-> n]

\* Rows of the case table: two counties that differ only in letter case, two
\* years that differ in digit count, and a row that holds the "All ..." texts.
RowPool ==
    << Row(Flu, <<"k", "e", "r", "n">>, 9, <<"F">>, 1),
       Row(Flu, <<"K", "e", "r", "n">>, 10, <<"F">>, 2),
       Row(AllDiseases, AllCounties, 10, AllSexes, 3) >>

Tables(pool, n) == UNION {[1..k -> pool] : k \in 0..n}

\* Every case table of at most MaxRecords rows.
AllTables == Tables(Range(RowPool), MaxRecords)

\* The case tables the interactive runs start from.
UITables == Tables({RowPool[1], RowPool[2]}, MaxRecords)

\* A boundary feature is its properties' key set.
Feature(keys) == [properties |-> keys]

FeatureKinds == {Feature({"NAME"}), Feature({"name"}), Feature({"NAME", "name"})}

GeoFiles == UNION {[1..k -> FeatureKinds] : k \in 0..MaxFeatures}

\* A case file with all five columns, or with some of them missing.
ColumnSets == (SUBSET Columns) \ {{}}

\* Values that no case table of the model holds.
FreeText ==
    [disease |-> {<<"Z", "i", "k", "a">>},
     county |-> {<<"Y", "o", "l", "o">>},
     year |-> {<<"7">>, <<"x">>, <<" ", "9">>},
     sex |-> {<<"X">>}]

NoData == [loaded |-> FALSE]

NoError == [type |-> "none"]

NoDisplay == [shown |-> FALSE]

Apps == {"dash", "sidebar", "container"}

\* ------------------------------------------------------------------------
\* State
\* ------------------------------------------------------------------------
VARIABLES
    app,            \* which program runs: dash_app.py or a Streamlit variant
    identity,       \* Streamlit build: a widget is identified by its key
                    \* alone ("key") or by its key and index ("index")
    files,          \* the paths that exist in the program directory
    csv,            \* the case file: its columns and rows
    geo,            \* the boundary file: its features
    phase,          \* "boot", "serving" or "halted"
    error,          \* the last exception raised or st.error shown
    df,             \* the DataFrame read from the case file
    counties_geo,   \* the boundary collection read from the boundary file
    options,        \* the four option lists
    value,          \* Dash: the value property of the four dropdowns
    session_state,  \* Streamlit: st.session_state
    widget_index,   \* Streamlit: the index each keyed selectbox was built with
    clicked,        \* Streamlit: the Clear Filters button reads True in the next run
    pending,        \* Dash: callbacks to run; Streamlit: a script run is due
    display,        \* the selection, metrics, tables and map key last rendered
    lastEvent       \* the user's last action: "none", "select" or "clear"

env == <<app, identity, files, csv, geo>>

vars == <<app, identity, files, csv, geo, phase, error, df, counties_geo,
          options, value, session_state, widget_index, clicked, pending,
          display, lastEvent>>

EmptyMap == [k \in {} |-> 0]

InitProgram ==
    /\ phase = "boot"
    /\ error = NoError
    /\ df = NoData
    /\ counties_geo = NoData
    /\ options = NoData
    /\ value = DEFAULTS
    /\ session_state = EmptyMap
    /\ widget_index = EmptyMap
    /\ clicked = FALSE
    /\ pending = IF app = "dash" THEN {} ELSE {"run"}
    /\ display = NoDisplay
    /\ lastEvent = "none"

\* Both files in place and well formed; the case table varies.
InitUI ==
    /\ app \in Apps
    /\ identity \in (IF app = "container" THEN {"key", "index"} ELSE {"key"})
    /\ files = {CSV_PATH, GEOJSON_PATH}
    /\ csv \in {[columns |-> Columns, rows |-> t] : t \in UITables}
    /\ geo = <<Feature({"NAME"})>>

\* The files vary: present or not, a column missing, the features' keys.
InitLoad ==
    /\ app \in Apps
    /\ identity = "key"
    /\ files \in SUBSET {CSV_PATH, GEOJSON_PATH}
    /\ csv \in {[columns |-> c, rows |-> <<RowPool[1]>>] : c \in ColumnSets}
    /\ geo \in GeoFiles

Init == (InitUI \/ InitLoad) /\ InitProgram

\* ------------------------------------------------------------------------
\* Loading
\* ------------------------------------------------------------------------
\* Mutant of files_found: only the case file is looked for.
files_found_csv_only == CSV_PATH \in files

\* os.path.exists(CSV_PATH) and os.path.exists(GEOJSON_PATH)
files_found == CSV_PATH \in files /\ GEOJSON_PATH \in files

\* dash_app.py: raise FileNotFoundError(...)
FileNotFoundError ==
    [type |-> "FileNotFoundError",
     msg |-> <<"CSV", "or", "GeoJSON", "file", "not", "found", "in",
               "project", "directory">>]

\* sidebar variant: st.error(...) before st.stop()
SidebarNotFound ==
    [type |-> "st.error",
     msg |-> <<"CSV", "or", "GeoJSON", "missing", "in", "app", "directory.">>]

\* filter-container variant: st.error(...) in load_data() before st.stop()
ContainerNotFound ==
    [type |-> "st.error",
     msg |-> <<"Data", "files", "(", CSV_PATH, "or", GEOJSON_PATH, ")", "not",
               "found.", "Please", "ensure", "they", "are", "in", "the", "same",
               "directory", "as", "the", "app.">>]

\* pd.read_csv(path): the table as the file holds it.
read_csv(file) == [columns |-> file.columns, rows |-> file.rows]

\* The columns the option lists read, in the order the source reads them.
OptionColumns == <<"Disease", "County", "Year", "Sex">>

\* Mutant of first_missing: the option lists are computed in reverse order.
last_missing(cols) ==
    OptionColumns[CHOOSE i \in 1..Len(OptionColumns) :
                    /\ OptionColumns[i] \notin cols
                    /\ \A j \in (i + 1)..Len(OptionColumns) : OptionColumns[j] \in cols]

\* The first df[name] of the option lists that raises KeyError.
first_missing(cols) ==
    OptionColumns[CHOOSE i \in 1..Len(OptionColumns) :
                    /\ OptionColumns[i] \notin cols
                    /\ \A j \in 1..(i - 1) : OptionColumns[j] \in cols]

options_fail(cols) == \E i \in 1..Len(OptionColumns) : OptionColumns[i] \notin cols

\* diseases, counties, years, sexes
filter_options(rows) ==
    [disease |-> option_list(AllDiseases, rows, "Disease"),
     county |-> option_list(AllCounties, rows, "County"),
     year |-> option_list(AllYears, rows, "Year"),
     sex |-> option_list(AllSexes, rows, "Sex")]

Raised(res) == [type |-> res.error, arg |-> res.arg]

\* ------------------------------------------------------------------------
\* The map's feature key
\* ------------------------------------------------------------------------
\* dash_app.py: featureidkey='properties.NAME'
dash_featureidkey == "NAME"

\* sidebar variant: NAME for every feature, and on KeyError name for every
\* feature; a KeyError of the second pass is not caught.
feature_key(features) ==
    IF \A i \in 1..Len(features) : "NAME" \in features[i].properties
    THEN [ok |-> TRUE, key |-> "NAME"]
    ELSE IF \A i \in 1..Len(features) : "name" \in features[i].properties
    THEN [ok |-> TRUE, key |-> "name"]
    ELSE [ok |-> FALSE, error |-> "KeyError", arg |-> "name"]

\* filter-container variant: the keys of the first feature decide.
geojson_feature_key(features) ==
    IF /\ features # <<>>
       /\ "name" \in features[1].properties
       /\ "NAME" \notin features[1].properties
    THEN "name"
    ELSE "NAME"

\* ------------------------------------------------------------------------
\* dash_app.py
\* ------------------------------------------------------------------------
\* Mutant of reset_filters: every dropdown is given the label 'All'.
reset_filters_all == [f \in Fields |-> AllSexes]

\* reset_filters(n_clicks)
reset_filters ==
    [disease |-> AllDiseases, county |-> AllCounties,
     year |-> AllYears, sex |-> AllSexes]

\* Mutant of df_after_update: the filters rebind the module's df.
df_after_update_inplace(frame, dff) == [frame EXCEPT !.rows = dff]

\* update_dashboard filters a copy (dff = df.copy()); the module's df stays.
df_after_update(frame, dff) == frame

\* Import of the module: the file check, the two reads, the option lists and
\* the layout; the page then fires reset_filters once.
DashStart ==
    /\ app = "dash"
    /\ phase = "boot"
    /\ IF ~files_found
       THEN /\ phase' = "halted"
            /\ error' = FileNotFoundError
            /\ UNCHANGED <<df, counties_geo, options, pending>>
       ELSE /\ df' = read_csv(csv)
            /\ counties_geo' = geo
            /\ IF options_fail(csv.columns)
               THEN /\ phase' = "halted"
                    /\ error' = [type |-> "KeyError", arg |-> first_missing(csv.columns)]
                    /\ UNCHANGED <<options, pending>>
               ELSE /\ phase' = "serving"
                    /\ options' = filter_options(csv.rows)
                    /\ pending' = {"reset_filters"}
                    /\ UNCHANGED error
    /\ UNCHANGED <<env, value, session_state, widget_index, clicked, display, lastEvent>>

\* The user picks an option of one dropdown.
DashSelect ==
    /\ app = "dash"
    /\ phase = "serving"
    /\ \E f \in Fields : \E v \in Range(options[f]) \ {value[f]} :
          value' = [value EXCEPT ![f] = v]
    /\ pending' = pending \cup {"update_dashboard"}
    /\ lastEvent' = "select"
    /\ UNCHANGED <<env, phase, error, df, counties_geo, options, session_state,
                   widget_index, clicked, display>>

\* The user clicks Clear Filters.
DashClickClear ==
    /\ app = "dash"
    /\ phase = "serving"
    /\ pending' = pending \cup {"reset_filters"}
    /\ lastEvent' = "clear"
    /\ UNCHANGED <<env, phase, error, df, counties_geo, options, value,
                   session_state, widget_index, clicked, display>>


\* Mutant of DashResetFilters: the four outputs are written without
\* triggering the callback that reads them.
DashResetFiltersSilent ==
    /\ app = "dash"
    /\ "reset_filters" \in pending
    /\ value' = reset_filters
    /\ pending' = pending \ {"reset_filters"}
    /\ UNCHANGED <<env, phase, error, df, counties_geo, options, session_state,
                   widget_index, clicked, display, lastEvent>>

\* The reset_filters callback runs; its four outputs are update_dashboard's inputs.
DashResetFilters ==
    /\ app = "dash"
    /\ "reset_filters" \in pending
    /\ value' = reset_filters
    /\ pending' = (pending \ {"reset_filters"}) \cup {"update_dashboard"}
    /\ UNCHANGED <<env, phase, error, df, counties_geo, options, session_state,
                   widget_index, clicked, display, lastEvent>>

\* The update_dashboard callback runs on the dropdowns' values, once no
\* callback that writes its inputs is pending.
DashUpdateDashboard ==
    /\ app = "dash"
    /\ pending = {"update_dashboard"}
    /\ pending' = {}
    /\ LET res == update_dashboard(df.rows, df.columns, value.disease,
                                   value.county, value.year, value.sex)
           dff == apply_filters(df.rows, df.columns, value.disease,
                                value.county, value.year, value.sex)
       IN  /\ IF res.ok
              THEN /\ display' = [shown |-> TRUE, sel |-> value, res |-> res,
                                  featureidkey |-> dash_featureidkey]
                   /\ error' = NoError
              ELSE /\ error' = Raised(res)
                   /\ UNCHANGED display
           /\ df' = IF dff.ok THEN df_after_update(df, dff.rows) ELSE df
    /\ UNCHANGED <<env, phase, counties_geo, options, value, session_state,
                   widget_index, clicked, lastEvent>>

\* ------------------------------------------------------------------------
\* streamlit_app.py: st.session_state and the keyed selectboxes
\* ------------------------------------------------------------------------
FilterKey(f) == f \o "_filter"

WidgetKey(f) == f \o "_filter_widget"

\* for k, v in DEFAULTS.items(): st.session_state.setdefault(k, v)
sidebar_defaults(ss) ==
    [k \in DOMAIN ss \cup Fields |-> IF k \in DOMAIN ss THEN ss[k] ELSE DEFAULTS[k]]

\* if '<field>_filter' not in st.session_state: st.session_state.<field>_filter = default
container_defaults(ss) ==
    [k \in DOMAIN ss \cup {FilterKey(f) : f \in Fields} |->
        IF k \in DOMAIN ss THEN ss[k]
        ELSE DEFAULTS[CHOOSE f \in Fields : FilterKey(f) = k]]

\* st.selectbox(label, opts, key=key, index=index): the value the widget
\* holds; a widget that is new (no value under its key, or built with another
\* index where the index is part of its identity) starts at opts[index].
selectbox(ss, widx, opts, key, index) ==
    IF key \in DOMAIN ss /\ (identity = "key" \/ widx[key] = index)
    THEN ss[key]
    ELSE opts[index]

\* The four selectboxes of the filter container, each followed by
\* st.session_state.<field>_filter = sel_<field>.
container_selected(ss, widx, opts) ==
    [f \in Fields |->
        selectbox(ss, widx, opts[f], WidgetKey(f), IndexIn(opts[f], ss[FilterKey(f)]))]

\* The four assignments of the Clear Filters branch.
clear_filters == DEFAULTS

\* ------------------------------------------------------------------------
\* streamlit_app.py, sidebar variant: one run of the script
\* ------------------------------------------------------------------------
SidebarRun ==
    /\ app = "sidebar"
    /\ phase # "halted"
    /\ "run" \in pending
    /\ pending' = {}
    /\ IF ~files_found
       THEN /\ phase' = "halted"
            /\ error' = SidebarNotFound
            /\ UNCHANGED <<df, counties_geo, options, session_state, display>>
       ELSE /\ df' = read_csv(csv)
            /\ counties_geo' = geo
            /\ session_state' = sidebar_defaults(session_state)
            /\ IF options_fail(csv.columns)
               THEN /\ phase' = "halted"
                    /\ error' = [type |-> "KeyError", arg |-> first_missing(csv.columns)]
                    /\ UNCHANGED <<options, display>>
               ELSE LET opts == filter_options(csv.rows)
                        ss == sidebar_defaults(session_state)
                        res == sidebar_pipeline(csv.rows, csv.columns, ss["disease"],
                                                ss["county"], ss["year"], ss["sex"])
                        key == feature_key(geo)
                    IN  /\ phase' = "serving"
                        /\ options' = opts
                        /\ IF \E f \in Fields : ss[f] \notin Range(opts[f])
                           THEN /\ error' = [type |-> "ValueError", arg |-> "index"]
                                /\ UNCHANGED display
                           ELSE IF ~res.ok
                           THEN /\ error' = Raised(res)
                                /\ UNCHANGED display
                           ELSE /\ display' =
                                      [shown |-> TRUE,
                                       sel |-> [f \in Fields |-> ss[f]],
                                       res |-> res,
                                       featureidkey |-> IF key.ok THEN key.key ELSE "none"]
                                /\ error' = IF key.ok THEN NoError ELSE Raised(key)
    /\ UNCHANGED <<env, value, widget_index, clicked, lastEvent>>

\* The user picks an option of one sidebar selectbox.
SidebarSelect ==
    /\ app = "sidebar"
    /\ phase = "serving"
    /\ pending = {}
    /\ \E f \in Fields : \E v \in Range(options[f]) \ {session_state[f]} :
          session_state' = [session_state EXCEPT ![f] = v]
    /\ pending' = {"run"}
    /\ lastEvent' = "select"
    /\ UNCHANGED <<env, phase, error, df, counties_geo, options, value,
                   widget_index, clicked, display>>

\* ------------------------------------------------------------------------
\* streamlit_app.py, filter-container variant: one run of the script
\* ------------------------------------------------------------------------
ContainerRun ==
    /\ app = "container"
    /\ phase # "halted"
    /\ "run" \in pending
    /\ clicked' = FALSE
    /\ IF ~files_found
       THEN /\ phase' = "halted"
            /\ error' = ContainerNotFound
            /\ pending' = {}
            /\ UNCHANGED <<df, counties_geo, options, session_state, widget_index, display>>
       ELSE /\ df' = read_csv(csv)
            /\ counties_geo' = geo
            /\ IF options_fail(csv.columns)
               THEN /\ phase' = "halted"
                    /\ error' = [type |-> "KeyError", arg |-> first_missing(csv.columns)]
                    /\ pending' = {}
                    /\ UNCHANGED <<options, session_state, widget_index, display>>
               ELSE LET opts == filter_options(csv.rows)
                        ss == container_defaults(session_state)
                    IN  /\ phase' = "serving"
                        /\ options' = opts
                        /\ IF \E f \in Fields : ss[FilterKey(f)] \notin Range(opts[f])
                           THEN /\ error' = [type |-> "ValueError", arg |-> "index"]
                                /\ session_state' = ss
                                /\ pending' = {}
                                /\ UNCHANGED <<widget_index, display>>
                           ELSE LET sel == container_selected(ss, widget_index, opts)
                                    set == IF clicked THEN clear_filters ELSE sel
                                    res == container_pipeline(csv.rows, csv.columns,
                                               sel["disease"], sel["county"],
                                               sel["year"], sel["sex"])
                                IN  /\ session_state' =
                                          [k \in {FilterKey(f) : f \in Fields}
                                                 \cup {WidgetKey(f) : f \in Fields} |->
                                              IF \E f \in Fields : k = WidgetKey(f)
                                              THEN sel[CHOOSE f \in Fields : k = WidgetKey(f)]
                                              ELSE set[CHOOSE f \in Fields : k = FilterKey(f)]]
                                    /\ widget_index' =
                                          [k \in {WidgetKey(f) : f \in Fields} |->
                                              LET f == CHOOSE g \in Fields : k = WidgetKey(g)
                                              IN  IndexIn(opts[f], ss[FilterKey(f)])]
                                    /\ IF clicked
                                       THEN /\ pending' = {"run"}
                                            /\ UNCHANGED <<error, display>>
                                       ELSE /\ pending' = {}
                                            /\ IF res.ok
                                               THEN /\ display' =
                                                          [shown |-> TRUE, sel |-> sel, res |-> res,
                                                           featureidkey |-> geojson_feature_key(geo)]
                                                    /\ error' = NoError
                                               ELSE /\ error' = Raised(res)
                                                    /\ UNCHANGED display
    /\ UNCHANGED <<env, value, lastEvent>>

\* The user picks an option of one selectbox of the filter container.
ContainerSelect ==
    /\ app = "container"
    /\ phase = "serving"
    /\ pending = {}
    /\ \E f \in Fields : \E v \in Range(options[f]) \ {session_state[WidgetKey(f)]} :
          session_state' = [session_state EXCEPT ![WidgetKey(f)] = v]
    /\ pending' = {"run"}
    /\ lastEvent' = "select"
    /\ UNCHANGED <<env, phase, error, df, counties_geo, options, value,
                   widget_index, clicked, display>>

\* The user clicks Clear Filters.
ContainerClickClear ==
    /\ app = "container"
    /\ phase = "serving"
    /\ pending = {}
    /\ clicked' = TRUE
    /\ pending' = {"run"}
    /\ lastEvent' = "clear"
    /\ UNCHANGED <<env, phase, error, df, counties_geo, options, value,
                   session_state, widget_index, display>>

\* ------------------------------------------------------------------------
\* The interactive programs
\* ------------------------------------------------------------------------
Next ==
    \/ DashStart
    \/ DashSelect
    \/ DashClickClear
    \/ DashResetFilters
    \/ DashUpdateDashboard
    \/ SidebarRun
    \/ SidebarSelect
    \/ ContainerRun
    \/ ContainerSelect
    \/ ContainerClickClear

Spec == Init /\ [][Next]_vars

\* ------------------------------------------------------------------------
\* The pipeline as a function: any case table, any arguments
\* ------------------------------------------------------------------------
\* The pipeline of the program that runs.
pipeline(rows, cols, sel) ==
    IF app = "dash"
    THEN update_dashboard(rows, cols, sel.disease, sel.county, sel.year, sel.sex)
    ELSE IF app = "sidebar"
    THEN sidebar_pipeline(rows, cols, sel.disease, sel.county, sel.year, sel.sex)
    ELSE container_pipeline(rows, cols, sel.disease, sel.county, sel.year, sel.sex)

\* The values a call may pass for a field: an option, or a value that no row holds.
Candidates(opts, f) == Range(opts[f]) \cup FreeText[f]

\* The program has loaded a case table; value holds the arguments of one call.
InitPipeline ==
    /\ app \in Apps
    /\ identity = "key"
    /\ files = {CSV_PATH, GEOJSON_PATH}
    /\ csv \in {[columns |-> Columns, rows |-> t] : t \in AllTables}
    /\ geo = <<Feature({"NAME"})>>
    /\ phase = "serving"
    /\ error = NoError
    /\ df = read_csv(csv)
    /\ counties_geo = geo
    /\ options = filter_options(csv.rows)
    /\ value \in {[disease |-> d, county |-> c, year |-> y, sex |-> s] :
                     d \in Candidates(options, "disease"),
                     c \in Candidates(options, "county"),
                     y \in Candidates(options, "year"),
                     s \in Candidates(options, "sex")}
    /\ session_state = EmptyMap
    /\ widget_index = EmptyMap
    /\ clicked = FALSE
    /\ pending = {"call"}
    /\ display = NoDisplay
    /\ lastEvent = "none"

\* One call of the pipeline on the arguments.
Call ==
    /\ pending = {"call"}
    /\ pending' = {}
    /\ LET res == pipeline(df.rows, df.columns, value)
       IN  IF res.ok
           THEN /\ display' = [shown |-> TRUE, sel |-> value, res |-> res,
                               featureidkey |-> "none"]
                /\ UNCHANGED error
           ELSE /\ error' = Raised(res)
                /\ UNCHANGED display
    /\ UNCHANGED <<env, phase, df, counties_geo, options, value, session_state,
                   widget_index, clicked, lastEvent>>

PipelineSpec == InitPipeline /\ [][Call]_vars

\* ------------------------------------------------------------------------
\* What the claims speak of
\* ------------------------------------------------------------------------
\* A row equals the selection on every field that is not the wildcard; the
\* year is compared as a number.
Matches(r, sel) ==
    /\ sel.disease = AllDiseases \/ r.Disease = sel.disease
    /\ sel.county = AllCounties \/ r.County = sel.county
    /\ sel.year = AllYears \/ (int(sel.year).ok /\ r.Year = int(sel.year).v)
    /\ sel.sex = AllSexes \/ r.Sex = sel.sex

Matching(rows, sel) == {i \in 1..Len(rows) : Matches(rows[i], sel)}

RECURSIVE CasesOver(_, _)
CasesOver(rows, S) ==
    IF S = {} THEN 0
    ELSE LET i == CHOOSE j \in S : TRUE
         IN  rows[i].Cases + CasesOver(rows, S \ {i})

RECURSIVE TableCases(_, _)
TableCases(table, n) == IF n = 0 THEN 0 ELSE table[n].Cases + TableCases(table, n - 1)

MatchingYears(rows, sel) == {rows[i].Year : i \in Matching(rows, sel)}

\* The marker the running program shows for an empty subset.
NoneMarker == IF app = "dash" THEN None ELSE NA

\* The filters the running program holds.
CurrentFilters ==
    IF app = "dash" THEN value
    ELSE IF app = "sidebar" THEN [f \in Fields |-> session_state[f]]
    ELSE [f \in Fields |-> session_state[FilterKey(f)]]

\* Some field holds a value that is neither its wildcard nor in its vocabulary.
OutOfVocabulary(sel) ==
    \E f \in Fields : sel[f] # DEFAULTS[f] /\ sel[f] \notin Range(options[f])

SomeFileMissing == CSV_PATH \notin files \/ GEOJSON_PATH \notin files

UniformFeatures == \A i, j \in 1..Len(geo) : geo[i] = geo[j]

\* ------------------------------------------------------------------------
\* Claims
\* ------------------------------------------------------------------------
\* C1: the total of a computed result is the sum of Cases over exactly the
\* rows that equal the selection on every non-wildcard field, and with four
\* wildcards it is the sum over the whole table.
C1_TotalCases ==
    display.shown =>
        /\ display.res.total = CasesOver(csv.rows, Matching(csv.rows, display.sel))
        /\ display.sel = DEFAULTS =>
              display.res.total = CasesOver(csv.rows, 1..Len(csv.rows))

\* C1 witness: a concrete sex was selected, it kept some rows and dropped others.
C1_Witness ==
    /\ display.shown
    /\ display.sel.sex # AllSexes
    /\ display.res.total > 0
    /\ display.res.total < CasesOver(csv.rows, 1..Len(csv.rows))

\* C2: for a non-empty subset first <= last and both are years of rows of the
\* subset; for an empty subset both are the marker and the total is 0.
C2_FirstLastYear ==
    display.shown =>
        LET years == MatchingYears(csv.rows, display.sel)
            res == display.res
        IN  IF years # {}
            THEN /\ res.first.type = "int"
                 /\ res.last.type = "int"
                 /\ res.first.v <= res.last.v
                 /\ res.first.v \in years
                 /\ res.last.v \in years
            ELSE /\ res.first = NoneMarker
                 /\ res.last = NoneMarker
                 /\ res.total = 0

\* C2 witness: a subset with two different years.
C2_Witness ==
    /\ display.shown
    /\ display.res.first.type = "int"
    /\ display.res.last.type = "int"
    /\ display.res.first.v < display.res.last.v

\* C3: the by-year table is strictly ascending by year, holds exactly the
\* years of the subset, and its totals add up to the total.
C3_ByYear ==
    display.shown =>
        LET bar == display.res.bar_data
        IN  /\ \A i, j \in 1..Len(bar) : i < j => bar[i].Year < bar[j].Year
            /\ {bar[i].Year : i \in 1..Len(bar)} = MatchingYears(csv.rows, display.sel)
            /\ TableCases(bar, Len(bar)) = display.res.total

\* C3 witness: two years in the table, the later year first in the case table.
C3_Witness ==
    /\ display.shown
    /\ Len(display.res.bar_data) = 2
    /\ Len(csv.rows) >= 2
    /\ csv.rows[1].Year > csv.rows[2].Year

\* C4: the by-county table handed to the map has no two entries with the same
\* county name, and its totals add up to the total.
C4_ByCounty ==
    display.shown =>
        LET map == display.res.map_data
        IN  /\ \A i, j \in 1..Len(map) : i # j => map[i].County # map[j].County
            /\ TableCases(map, Len(map)) = display.res.total

\* C5: once Clear Filters was the last thing the user did and nothing is
\* pending, all four filters hold their defaults.
C5_ClearFilters ==
    (lastEvent = "clear" /\ pending = {}) =>
        \A f \in Fields : CurrentFilters[f] = DEFAULTS[f]

\* C6 (as claimed): a halt for a missing file names every path that is missing.
C6_NamesMissingPath ==
    (SomeFileMissing /\ phase = "halted") =>
        \A p \in {CSV_PATH, GEOJSON_PATH} \ files : p \in Range(error.msg)

\* C6 (amended): with a file missing the program halts with its one fixed
\* not-found message, whichever file is missing, and produces no option list,
\* metric or chart.
C6_HaltsBeforeOutput ==
    SomeFileMissing =>
        /\ phase \in {"boot", "halted"}
        /\ phase = "halted" =>
              error = (IF app = "dash" THEN FileNotFoundError
                       ELSE IF app = "sidebar" THEN SidebarNotFound
                       ELSE ContainerNotFound)
        /\ df = NoData
        /\ options = NoData
        /\ display = NoDisplay

\* C6 witness: only the boundary file is missing and the program has halted.
C6_Witness ==
    /\ files = {CSV_PATH}
    /\ phase = "halted"
    /\ error.type \in {"FileNotFoundError", "st.error"}

\* C7 (as claimed): a case table that lacks a column, or a boundary file
\* with no feature, ends loading in an error and nothing is computed.
C7_FormatError ==
    (~SomeFileMissing /\ (csv.columns # Columns \/ geo = <<>>) /\ phase # "boot") =>
        /\ phase = "halted"
        /\ error # NoError
        /\ display = NoDisplay

\* C7 (amended): a missing Disease, County, Year or Sex column halts loading
\* with a KeyError that names the first of them that is missing; with only
\* Cases missing loading completes and every aggregation fails instead, so
\* nothing is ever rendered; a boundary file with no feature is accepted.
C7_MissingColumn ==
    (~SomeFileMissing /\ phase # "boot") =>
        /\ \A i \in 1..4 :
              LET order == <<"Disease", "County", "Year", "Sex">>
              IN  (order[i] \notin csv.columns
                      /\ \A j \in 1..(i - 1) : order[j] \in csv.columns) =>
                     /\ phase = "halted"
                     /\ error = [type |-> "KeyError", arg |-> order[i]]
                     /\ options = NoData
                     /\ display = NoDisplay
        /\ "Cases" \notin csv.columns => display = NoDisplay
        /\ csv.columns = Columns \ {"Cases"} =>
              /\ phase = "serving"
              /\ options # NoData
              /\ error \in {NoError, [type |-> "KeyError", arg |-> "Cases"]}
        /\ (csv.columns = Columns /\ geo = <<>>) => phase = "serving" /\ error = NoError

\* C7 witness: only Cases is missing, loading completed, an aggregation failed.
C7_Witness ==
    /\ csv.columns = Columns \ {"Cases"}
    /\ phase = "serving"
    /\ error = [type |-> "KeyError", arg |-> "Cases"]

\* C8: the DataFrame stays as it was read, and what is rendered is the
\* pipeline's value on the table as read and the selection it was computed
\* for, whatever was selected or cleared before.
C8_Pure ==
    /\ df # NoData => df = [columns |-> csv.columns, rows |-> csv.rows]
    /\ display.shown =>
          display.res = pipeline(csv.rows, csv.columns, display.sel)

\* C8 witness: after a selection that dropped rows was rendered and Clear
\* Filters was clicked, the defaults are rendered again.
C8_Witness ==
    /\ app = "dash"
    /\ lastEvent = "clear"
    /\ pending = {}
    /\ display.shown
    /\ display.sel = DEFAULTS
    /\ Len(csv.rows) = 2
    /\ csv.rows[1].Year # csv.rows[2].Year

\* C9: for a boundary collection whose features carry NAME or name, the key
\* used for the map join is a key of the features (NAME when NAME is present,
\* name when only name is), and the two Streamlit detections agree.
C9_FeatureKey ==
    (display.shown /\ geo # <<>> /\ UniformFeatures) =>
        /\ display.featureidkey \in geo[1].properties
        /\ "NAME" \in geo[1].properties => display.featureidkey = "NAME"
        /\ geo[1].properties = {"name"} => display.featureidkey = "name"
        /\ feature_key(geo).ok
        /\ feature_key(geo).key = geojson_feature_key(geo)

\* C10: a call whose selection holds an out-of-vocabulary value ends without
\* an error and with the empty result.
C10_OutOfVocabulary ==
    (pending = {} /\ OutOfVocabulary(value)) =>
        /\ error = NoError
        /\ display.shown
        /\ display.res.total = 0
        /\ display.res.first = NoneMarker
        /\ display.res.last = NoneMarker
        /\ display.res.bar_data = <<>>
        /\ display.res.map_data = <<>>

\* Some row of the table holds v in the column.
InData(rows, col, v) == \E i \in 1..Len(rows) : rows[i][col] = v

\* A row matches when a value that the table holds in a column is taken as
\* that value, and only a wildcard the table does not hold matches anything.
ConcreteMatches(rows, r, sel) ==
    /\ IF InData(rows, "Disease", sel.disease) THEN r.Disease = sel.disease
       ELSE sel.disease = AllDiseases
    /\ IF InData(rows, "County", sel.county) THEN r.County = sel.county
       ELSE sel.county = AllCounties
    /\ sel.year = AllYears \/ (int(sel.year).ok /\ r.Year = int(sel.year).v)
    /\ IF InData(rows, "Sex", sel.sex) THEN r.Sex = sel.sex
       ELSE sel.sex = AllSexes

\* C11: a value that the table holds, also one spelled like a wildcard,
\* selects only the rows equal to it on its field; a wildcard that is no
\* value of the table keeps all rows.
C11_WildcardDistinct ==
    display.shown =>
        display.res.total =
            CasesOver(csv.rows, {i \in 1..Len(csv.rows) :
                                    ConcreteMatches(csv.rows, csv.rows[i], display.sel)})

\* The display strings of a column's values.
Vocabulary(rows, f) ==
    IF f = "disease" THEN {rows[i].Disease : i \in 1..Len(rows)}
    ELSE IF f = "county" THEN {rows[i].County : i \in 1..Len(rows)}
    ELSE IF f = "year" THEN {IntToStr(rows[i].Year) : i \in 1..Len(rows)}
    ELSE {rows[i].Sex : i \in 1..Len(rows)}

\* a comes before b in the order the field's values have: years as numbers,
\* the other fields as strings.
Before(f, a, b) ==
    IF f = "year" THEN int(a).v < int(b).v ELSE StrLess(a, b)

\* C12: each option list is the wildcard followed by the distinct values of
\* its column, each once, ascending; the years ascending as numbers.
C12_OptionLists ==
    options # NoData =>
        \A f \in Fields :
            LET opts == options[f]
                n == Len(opts)
            IN  /\ n >= 1
                /\ opts[1] = DEFAULTS[f]
                /\ {opts[i] : i \in 2..n} = Vocabulary(csv.rows, f)
                /\ \A i, j \in 2..n : i < j => Before(f, opts[i], opts[j])

\* The running program holds a value for each of the four filters.
FiltersHeld ==
    IF app = "dash" THEN TRUE
    ELSE IF app = "sidebar" THEN Fields \subseteq DOMAIN session_state
    ELSE {FilterKey(f) : f \in Fields} \subseteq DOMAIN session_state

\* C13: once the option lists exist, each of the four filter values the
\* program holds is an option of its list, the year converts with int(), and
\* no option-index lookup has failed.
C13_FiltersInOptions ==
    (phase = "serving" /\ FiltersHeld) =>
        /\ \A f \in Fields : CurrentFilters[f] \in Range(options[f])
        /\ CurrentFilters.year # AllYears => int(CurrentFilters.year).ok
        /\ error.type # "ValueError"

\* C13 witness: a concrete year is held and a result was computed for it.
C13_Witness ==
    /\ phase = "serving"
    /\ FiltersHeld
    /\ CurrentFilters.year # AllYears
    /\ display.shown
    /\ display.sel.year = CurrentFilters.year

\* C14: in the Dash program, when no callback is pending the display is the
\* result of update_dashboard on the four current dropdown values (or the
\* callback's exception, and nothing displayed, when it raises); when the
\* last event was Clear Filters these are the four defaults.
C14_DashSettled ==
    (app = "dash" /\ phase = "serving" /\ pending = {}) =>
        LET res == update_dashboard(csv.rows, csv.columns, value.disease,
                                    value.county, value.year, value.sex)
        IN  /\ lastEvent = "clear" => value = DEFAULTS
            /\ IF res.ok
               THEN /\ display.shown
                    /\ display.sel = value
                    /\ display.res = res
               ELSE /\ display = NoDisplay
                    /\ error = Raised(res)

\* C14 witness: Clear Filters was the last event, its callbacks have run and
\* the display shows the result for the four defaults on a non-empty table.
C14_Witness ==
    /\ app = "dash"
    /\ pending = {}
    /\ lastEvent = "clear"
    /\ display.shown
    /\ display.sel = DEFAULTS
    /\ display.res.total > 0

====
